---- MODULE Spec2Model ----
(***************************************************************************)
(* A model of src/Modules/Phylogeny.py: the Newick reader (read_string,    *)
(* find_correct_comma, format_list), the leaf enumerator (read_leaves),    *)
(* the clade decomposer (recur_clades) and the Tree handle.                *)
(*                                                                         *)
(* Python values are tagged records:                                       *)
(*   str    [str   |-> sequence of one-character strings]                  *)
(*   tuple  [tuple |-> sequence of values]                                 *)
(*   list   [list  |-> sequence of values]                                 *)
(* A float is an integer number of tenths (fixed point, one fractional     *)
(* digit); the texts the model draws carry at most one fractional digit,   *)
(* so float() and + are exact on them.                                     *)
(* A call that can raise returns [ok |-> TRUE, val |-> v] or               *)
(* [ok |-> FALSE, err |-> <exception name>].                               *)
(***************************************************************************)
EXTENDS Integers, Sequences, FiniteSets, TLC

VARIABLES
    raw,        \* the argument given to Tree(raw, name)
    handle,     \* the Tree handle the caller holds
    built,      \* tree, leaves and name of that handle as its constructor set them
    distance,   \* the threshold of the last find_clades call that returned
    error,      \* the exception the last call raised, "none" when it returned
    pc,         \* "start" before Tree(raw, name), then "ready", or "failed" if it raised
    string,     \* the text given to the reader
    pieces,     \* the result of find_correct_comma(string)
    parsed,     \* the result of read_string(string)
    tree,       \* the result of format_list on that
    leaves      \* the result of read_leaves on that, or of handle.read_leaves()

vars == <<raw, handle, built, distance, error, pc, string, pieces, parsed, tree, leaves>>

-----------------------------------------------------------------------------
(* Python values *)

Str(s) == [str |-> s]
Tup(xs) == [tuple |-> xs]
Lst(xs) == [list |-> xs]

Ok(v) == [ok |-> TRUE, val |-> v]
Raise(e) == [ok |-> FALSE, err |-> e]

\* isinstance(x, str), isinstance(x, tuple), isinstance(x, list)
IsStr(x) == DOMAIN x = {"str"}
IsTuple(x) == DOMAIN x = {"tuple"}
IsList(x) == DOMAIN x = {"list"}

\* the characters of a str, the items of a tuple or list
Payload(x) == IF IsStr(x) THEN x.str ELSE IF IsTuple(x) THEN x.tuple ELSE x.list

\* for x in value: a str iterates over its characters, each a str of length 1
Items(x) == IF IsStr(x) THEN [i \in 1..Len(x.str) |-> Str(<<x.str[i]>>)] ELSE Payload(x)

\* value[0] and value[-1] of a non-empty str, tuple or list
First(x) == Items(x)[1]
Last(x) == Items(x)[Len(Payload(x))]

-----------------------------------------------------------------------------
(* Python str operations, on sequences of characters *)

Min(a, b) == IF a < b THEN a ELSE b
Max(a, b) == IF a > b THEN a ELSE b

\* a slice index as Python normalises it: negative counts from the end, clamped
SliceIndex(s, i) == IF i < 0 THEN Max(Len(s) + i, 0) ELSE Min(i, Len(s))

\* s[start:stop], 0-based, stop exclusive
Slice(s, start, stop) ==
    LET a == SliceIndex(s, start)
        b == SliceIndex(s, stop)
    IN IF a < b THEN SubSeq(s, a + 1, b) ELSE <<>>

\* s[start:]
SliceFrom(s, start) == Slice(s, start, Len(s))

\* the 1-based positions of character c in s
Positions(s, c) == {i \in 1..Len(s) : s[i] = c}

\* str.split(sep) for a one-character sep: every piece, empty ones included
RECURSIVE Split(_, _)
Split(s, sep) ==
    IF Positions(s, sep) = {} THEN <<s>>
    ELSE LET p == CHOOSE i \in Positions(s, sep) : \A j \in Positions(s, sep) : i <= j
         IN <<SubSeq(s, 1, p - 1)>> \o Split(SubSeq(s, p + 1, Len(s)), sep)

\* str.rsplit(sep, 1): split once, at the last occurrence of sep
RSplit1(s, sep) ==
    IF Positions(s, sep) = {} THEN <<s>>
    ELSE LET p == CHOOSE i \in Positions(s, sep) : \A j \in Positions(s, sep) : i >= j
         IN <<SubSeq(s, 1, p - 1), SubSeq(s, p + 1, Len(s))>>

Digits == <<"0", "1", "2", "3", "4", "5", "6", "7", "8", "9">>
IsDigit(c) == \E d \in 1..10 : Digits[d] = c
DigitValue(c) == (CHOOSE d \in 1..10 : Digits[d] = c) - 1
Whitespace == {" ", "\n"}

\* "%s" % n for an integer n >= 0
RECURSIVE DecimalText(_)
DecimalText(n) ==
    IF n < 10 THEN <<Digits[n + 1]>> ELSE DecimalText(n \div 10) \o <<Digits[(n % 10) + 1]>>

\* the value of a sequence of digits
RECURSIVE DigitsValue(_)
DigitsValue(s) ==
    IF s = <<>> THEN 0 ELSE 10 * DigitsValue(SubSeq(s, 1, Len(s) - 1)) + DigitValue(s[Len(s)])

\* str.strip() of whitespace
RECURSIVE Strip(_)
Strip(s) ==
    IF s = <<>> THEN s
    ELSE IF s[1] \in Whitespace THEN Strip(Tail(s))
    ELSE IF s[Len(s)] \in Whitespace THEN Strip(SubSeq(s, 1, Len(s) - 1))
    ELSE s

\* the tenths in a fractional part of at most one significant digit
FractionTenths(f) == IF f = <<>> THEN 0 ELSE DigitValue(f[1])

\* the float of an integer part and an optional fractional part, in tenths
FloatOfParts(parts, negative) ==
    IF /\ Len(parts) <= 2
       /\ \A k \in 1..Len(parts) : \A i \in 1..Len(parts[k]) : IsDigit(parts[k][i])
       /\ \E k \in 1..Len(parts) : Len(parts[k]) > 0
    THEN Ok((IF negative THEN 0 - 1 ELSE 1)
            * (10 * DigitsValue(parts[1])
               + (IF Len(parts) = 2 THEN FractionTenths(parts[2]) ELSE 0)))
    ELSE Raise("ValueError")

\* the float of a text without surrounding whitespace: an optional sign first
FloatOfStripped(s) ==
    FloatOfParts(Split(IF s # <<>> /\ s[1] \in {"-", "+"} THEN Tail(s) ELSE s, "."),
                 s # <<>> /\ s[1] = "-")

\* float(text): surrounding whitespace stripped, an optional sign, digits with
\* an optional point and at least one digit; anything else raises ValueError.
\* The value is in tenths.
ParseFloat(text) == FloatOfStripped(Strip(text))

-----------------------------------------------------------------------------
(* find_correct_comma *)

\* the elements of a set of integers in increasing order
RECURSIVE Ascending(_)
Ascending(S) ==
    IF S = {} THEN <<>>
    ELSE LET m == CHOOSE i \in S : \A j \in S : i <= j
         IN <<m>> \o Ascending(S \ {m})

\* how many times character c occurs in string[:p-1] (left of 1-based position p)
CountLeft(s, c, p) == Cardinality({i \in Positions(s, c) : i < p})

\* line 267 without the test: every comma splits
CommaIsOutside_Always(s, p) == TRUE

\* line 267: the comma at p has as many "(" as ")" to its left
CommaIsOutside(s, p) == CountLeft(s, "(", p) = CountLeft(s, ")", p)

\* lines 262-268: the commas kept as split points, in increasing order
SplitPoints(s) == Ascending({p \in Positions(s, ",") : CommaIsOutside(s, p)})

\* line 270: the pieces around the split points sp (non-empty) of s
CutAt(s, sp) ==
    <<SubSeq(s, 1, sp[1] - 1)>>
    \o [i \in 1..(Len(sp) - 1) |-> SubSeq(s, sp[i] + 1, sp[i + 1] - 1)]
    \o <<SubSeq(s, sp[Len(sp)] + 1, Len(s))>>

\* line 270: splits[0] raises IndexError when no comma qualifies
CutOrRaise(s, splits) == IF splits = <<>> THEN Raise("IndexError") ELSE Ok(CutAt(s, splits))

find_correct_comma(s) == CutOrRaise(s, SplitPoints(s))

-----------------------------------------------------------------------------
(* read_string *)

\* line 182 removing one character at each end
StripHeader_OneEach(s) == Slice(s, 1, -1)

\* line 182: string[1:-2], meant to remove "(" and ");"
StripHeader(s) == Slice(s, 1, -2)

\* lines 200-201: one wrapping pair of parentheses removed when the text has one
\* (indexing the empty text raises IndexError)
StripGroup(s) ==
    IF s = <<>> THEN Raise("IndexError")
    ELSE IF s[1] = "(" /\ s[Len(s)] = ")" THEN Ok(Slice(s, 1, -1))
    ELSE Ok(s)

\* lines 192, 209: element.split(":") as a list of str
SplitLeaf(element) ==
    LET parts == Split(element, ":")
    IN Lst([i \in 1..Len(parts) |-> Str(parts[i])])

RECURSIVE read_string(_, _)
RECURSIVE read_elements(_, _, _)

\* lines 189-192, 206-209: one fragment of a split list
read_element(element, recursion_number) ==
    IF element = <<>> THEN Raise("IndexError")
    ELSE IF element[1] = "(" THEN read_string(element, recursion_number + 1)
    ELSE Ok(SplitLeaf(element))

\* lst[index] = ... for one fragment and then for the rest: the first
\* exception ends the loop
Prepend(head, rest) ==
    IF ~head.ok THEN head
    ELSE IF ~rest.ok THEN rest
    ELSE Ok(<<head.val>> \o rest.val)

\* lines 188-192, 205-209: the loop over the fragments from index i on
read_elements(lst, i, recursion_number) ==
    IF i > Len(lst) THEN Ok(<<>>)
    ELSE Prepend(read_element(lst[i], recursion_number),
                 read_elements(lst, i + 1, recursion_number))

\* lines 188, 205: the loop runs on what find_correct_comma returned
ReadAll(lst, recursion_number) ==
    IF lst.ok THEN read_elements(lst.val, 1, recursion_number) ELSE lst

\* line 194: return lst
AsList(done) == IF done.ok THEN Ok(Lst(done.val)) ELSE done

\* lines 182-194: the header removed, the body split and each fragment read
read_header(s, recursion_number) ==
    AsList(ReadAll(find_correct_comma(StripHeader(s)), recursion_number))

\* line 203: find_correct_comma(temp_string[0])
SplitGroup(group) == IF group.ok THEN find_correct_comma(group.val) ELSE group

\* line 211: return temp_string, its first part replaced by the list read from
\* it; the branch length follows when the fragment had a ":"
WithLength(done, temp_string) ==
    IF done.ok
    THEN Ok(Lst(<<Lst(done.val)>>
                \o [i \in 1..(Len(temp_string) - 1) |-> Str(temp_string[i + 1])]))
    ELSE done

\* lines 199-211: temp_string is string.rsplit(":", 1)
read_body(temp_string, recursion_number) ==
    WithLength(ReadAll(SplitGroup(StripGroup(temp_string[1])), recursion_number),
               temp_string)

read_string(s, recursion_number) ==
    IF recursion_number = 0 THEN read_header(s, recursion_number)
    ELSE read_body(RSplit1(s, ":"), recursion_number)

-----------------------------------------------------------------------------
(* format_list *)

RECURSIVE format_list(_)

\* lines 225-229: one element of the list
format_element(element) ==
    IF IsList(element) THEN
        IF IsStr(First(element)) THEN Tup(element.list) ELSE format_list(element)
    ELSE element

format_list(inp_list) ==
    Tup([i \in 1..Len(inp_list.list) |-> format_element(inp_list.list[i])])

\* format_list of what read_string returned
Formatted(r) == IF r.ok THEN Ok(format_list(r.val)) ELSE r

\* read_tree's conversion of a file's text: format_list(read_string(data))
ParseText(data) == Formatted(read_string(data, 0))

-----------------------------------------------------------------------------
(* read_leaves *)

RECURSIVE read_leaves(_)
RECURSIVE leaves_from(_, _)

\* lines 250, 252 putting what an element gives in front of output_list
leaves_from_Reversed(items, i) ==
    IF i > Len(items) THEN <<>>
    ELSE LET element == items[i]
             here == IF IsStr(First(element)) THEN <<First(element)>>
                     ELSE IF IsTuple(First(element)) THEN read_leaves(First(element))
                     ELSE <<>>
         IN leaves_from(items, i + 1) \o here

\* lines 248-252: the loop over the elements of the tuple from index i on
leaves_from(items, i) ==
    IF i > Len(items) THEN <<>>
    ELSE LET element == items[i]
             here == IF IsStr(First(element)) THEN <<First(element)>>
                     ELSE IF IsTuple(First(element)) THEN read_leaves(First(element))
                     ELSE <<>>
         IN here \o leaves_from(items, i + 1)

read_leaves(t) == IF IsStr(t) THEN <<t>> ELSE leaves_from(Items(t), 1)

-----------------------------------------------------------------------------
(* Tree *)

\* line 17
supported_tree_filetypes == {<<".", "d", "n", "d">>}

\* The files of the environment: one tree file, holding a Newick text.
TreeFilePath == <<"t", ".", "d", "n", "d">>
TreeFileText ==
    <<"(", "A", ":", "0", ".", "1", ",", "(", "B", ":", "0", ".", "2", ",",
      "C", ":", "0", ".", "3", ")", ":", "0", ".", "4", ")", ";">>

\* two more tree files, each with a branch length that is no number: on a leaf,
\* "(A:x,(B:0.2,C:0.3):0.4);", and on a group, "((A:0.2,B:0.2):x,C:0.3);"
UnknownLeafFilePath == <<"u", ".", "d", "n", "d">>
UnknownLeafFileText ==
    <<"(", "A", ":", "x", ",", "(", "B", ":", "0", ".", "2", ",",
      "C", ":", "0", ".", "3", ")", ":", "0", ".", "4", ")", ";">>
UnknownGroupFilePath == <<"v", ".", "d", "n", "d">>
UnknownGroupFileText ==
    <<"(", "(", "A", ":", "0", ".", "2", ",", "B", ":", "0", ".", "2", ")", ":", "x", ",",
      "C", ":", "0", ".", "3", ")", ";">>

FileSystem ==
    (TreeFilePath :> TreeFileText)
    @@ (UnknownLeafFilePath :> UnknownLeafFileText)
    @@ (UnknownGroupFilePath :> UnknownGroupFileText)

\* os.path.isfile(raw)
isfile(path) == path \in DOMAIN FileSystem

\* lines 153-166
read_tree(filepath) == ParseText(FileSystem[filepath])

\* lines 42-45 parsing a str that is no file instead of keeping it
tree_of_raw_Parsing(r) ==
    IF IsStr(r) THEN
        IF isfile(r.str) /\ Slice(r.str, -4, Len(r.str)) \in supported_tree_filetypes
        THEN read_tree(r.str)
        ELSE ParseText(r.str)
    ELSE IF IsTuple(r) THEN Ok(r)
    ELSE Raise("UnboundLocalError")

\* lines 32-55: the value of self.tree, or the exception raised. An input that
\* is neither str nor tuple leaves self.tree unset (del self only unbinds the
\* local name), and line 58 then raises UnboundLocalError.
tree_of_raw(r) ==
    IF IsStr(r) THEN
        IF isfile(r.str) /\ Slice(r.str, -4, Len(r.str)) \in supported_tree_filetypes
        THEN read_tree(r.str)
        ELSE Ok(r)
    ELSE IF IsTuple(r) THEN Ok(r)
    ELSE Raise("UnboundLocalError")

\* lines 57-59: the attributes of the new Tree. self.clades does not exist
\* until find_clades sets it: cached tells whether it does.
NewTree(t, name) ==
    IF t.ok
    THEN Ok([tree |-> t.val, leaves |-> read_leaves(t.val), name |-> name,
             cached |-> FALSE, clades |-> <<>>])
    ELSE t

\* Tree.__init__, lines 22-59
TreeInit(r, name) == NewTree(tree_of_raw(r), name)

-----------------------------------------------------------------------------
(* recur_clades *)

\* lines 134-142: "Clade_%s" % n
CladeName(n) == Str(<<"C", "l", "a", "d", "e", "_">> \o DecimalText(n))

\* line 130: if element_distance: (None, and the float 0.0, are false)
DistanceExists(d) == d.ok /\ d.val # 0

\* the comparison of line 132 turned round
ReachesTarget_Reversed(element_distance, target_distance) ==
    element_distance <= target_distance

\* line 132
ReachesTarget(element_distance, target_distance) == element_distance >= target_distance

\* lines 134, 138, 142: the number of the clade being created
CladeNumber(n_clades, CLADES) == n_clades + Len(CLADES) + 1

\* line 149 without the clades found so far at this level
CladesSoFar_Restart(n_clades, CLADES) == n_clades

\* line 149: the n_clades handed to the recursive call
CladesSoFar(n_clades, CLADES) == n_clades + Len(CLADES)

\* lines 126-128 taking a length that is no number for the length 0
AddDistance_UnknownIsZero(f, dist) == IF f.ok THEN Ok(f.val + dist) ELSE Ok(dist)

\* line 125: the float plus distance; a ValueError stays (line 126 catches it)
AddDistance(f, dist) == IF f.ok THEN Ok(f.val + dist) ELSE f

\* lines 124-128: float(element[-1]) + distance, ValueError caught as None
\* (ok = FALSE); element[-1] is a str here
ElementDistance(element, dist) == AddDistance(ParseFloat(Last(element).str), dist)

RECURSIVE recur_clades(_, _, _, _)
RECURSIVE recur_from(_, _, _, _, _, _)

\* lines 138, 142: CLADES.append(Tree(...))
Appended(CLADES, clade) == IF clade.ok THEN Ok(Append(CLADES, clade.val)) ELSE clade

\* line 149: CLADES += recur_clades(...)
Extended(CLADES, sub) == IF sub.ok THEN Ok(CLADES \o sub.val) ELSE sub

\* lines 130-149: what becomes of CLADES, the list built so far, for an element
\* of the given element_distance: the list after it, or the exception raised
place(element, element_distance, target_distance, n_clades, CLADES) ==
    IF ~DistanceExists(element_distance) THEN Ok(CLADES)
    ELSE IF ReachesTarget(element_distance.val, target_distance) THEN
        IF IsStr(First(element)) \/ IsTuple(First(element))
        THEN Appended(CLADES, TreeInit(First(element),
                                       CladeName(CladeNumber(n_clades, CLADES))))
        ELSE Ok(CLADES)
    ELSE IF IsStr(First(element)) THEN Ok(CLADES)
    ELSE Extended(CLADES, recur_clades(First(element), element_distance.val,
                                       target_distance, CladesSoFar(n_clades, CLADES)))

\* lines 124-149: the body of the loop for one element; only ValueError is
\* caught (line 126): element[-1] of an empty element raises IndexError, float
\* of a tuple raises TypeError
visit(element, dist, target_distance, n_clades, CLADES) ==
    IF Len(Payload(element)) = 0 THEN Raise("IndexError")
    ELSE IF ~IsStr(Last(element)) THEN Raise("TypeError")
    ELSE place(element, ElementDistance(element, dist), target_distance, n_clades, CLADES)

\* line 120: the loop goes on with the next element unless an exception ended
\* the call
GoOn(items, i, dist, target_distance, n_clades, step) ==
    IF step.ok THEN recur_from(items, i + 1, dist, target_distance, n_clades, step.val)
    ELSE step

\* lines 120-149: the loop over the elements from index i on
recur_from(items, i, dist, target_distance, n_clades, CLADES) ==
    IF i > Len(items) THEN Ok(CLADES)
    ELSE GoOn(items, i, dist, target_distance, n_clades,
              visit(items[i], dist, target_distance, n_clades, CLADES))

\* recur_clades(tree_tup, distance=dist, target_distance, n_clades); the
\* recursion_number is only logged
recur_clades(tree_tup, dist, target_distance, n_clades) ==
    recur_from(Items(tree_tup), 1, dist, target_distance, n_clades, <<>>)

\* Tree.find_clades, lines 65-72: recur_clades(self.tree, target_distance=distance)
find_clades(self, target_distance) == recur_clades(self.tree, 0, target_distance, 0)

-----------------------------------------------------------------------------
(* The inputs *)

MaxNodes == 3
MaxThreshold == 5
MaxTextNodes == 4
MaxCut == 3
MaxFragment == 4

Letters == <<"A", "B", "C", "D", "E", "F", "G", "H">>

\* the name of the leaf that is node i of a tree, nodes numbered depth first
NodeName(i) == <<Letters[i]>>

RECURSIVE Forests(_, _, _, _)
RECURSIVE Elements(_, _, _, _)

\* the nodes (content, length) of k nodes in all, the first being node i; a
\* leaf takes what follows its name from leafParts, an internal node from
\* nodeParts
Elements(k, i, leafParts, nodeParts) ==
    IF k = 1 THEN {Tup(<<Str(NodeName(i))>> \o l) : l \in leafParts}
    ELSE {Tup(<<Tup(c)>> \o l) : c \in Forests(k - 1, i + 1, leafParts, nodeParts),
                                 l \in nodeParts}

\* the sequences of nodes of n nodes in all, the first being node i
Forests(n, i, leafParts, nodeParts) ==
    IF n = 0 THEN {<<>>}
    ELSE UNION {{<<e>> \o rest : e \in Elements(k, i, leafParts, nodeParts),
                                 rest \in Forests(n - k, i + k, leafParts, nodeParts)} :
                k \in 1..n}

\* branch-length texts: zero, a positive length, and one that is no number
LeafLengths == {<<Str(<<"0">>)>>, <<Str(<<"0", ".", "2">>)>>, <<Str(<<"x">>)>>}
NodeLengths == {<<Str(<<"0">>)>>, <<Str(<<"0", ".", "1">>)>>, <<Str(<<"x">>)>>}

\* the normalized trees of at most MaxNodes nodes
Trees == UNION {{Tup(f) : f \in Forests(n, 1, LeafLengths, NodeLengths)} : n \in 1..MaxNodes}

\* the trees written out as texts: a leaf with or without a branch length, an
\* internal node with or without one
TextLeafParts == {<<Str(<<"1">>)>>, <<>>}
TextNodeParts == {<<Str(<<"2">>)>>, <<>>}
TextTrees ==
    UNION {{Tup(f) : f \in Forests(n, 1, TextLeafParts, TextNodeParts)} : n \in 1..MaxTextNodes}

RECURSIVE WriteNodes(_)

\* a node in Newick notation
WriteNode(e) ==
    (IF IsStr(First(e)) THEN First(e).str
     ELSE <<"(">> \o WriteNodes(First(e).tuple) \o <<")">>)
    \o (IF Len(e.tuple) = 2 THEN <<":">> \o Last(e).str ELSE <<>>)

\* sibling nodes, separated by commas
WriteNodes(items) ==
    IF Len(items) = 1 THEN WriteNode(items[1])
    ELSE WriteNode(items[1]) \o <<",">> \o WriteNodes(Tail(items))

\* a tree as the text of a file: "(...);" and a newline
Write(t) == <<"(">> \o WriteNodes(t.tuple) \o <<")", ";", "\n">>

\* the texts given to the reader: a tree's text with its last k characters
\* missing (the newline, the ";", the closing parenthesis, ...)
Texts == {Slice(Write(t), 0, Len(Write(t)) - k) : t \in TextTrees, k \in 0..MaxCut}

\* the fragments given to the splitter: every string of at most MaxFragment
\* characters of the alphabet, and the fragment A,B,(C,D)
FragmentAlphabet == {"A", ",", "(", ")"}
RECURSIVE StringsOfLength(_)
StringsOfLength(n) ==
    IF n = 0 THEN {<<>>}
    ELSE {Append(s, c) : s \in StringsOfLength(n - 1), c \in FragmentAlphabet}
ExampleFragment == <<"A", ",", "B", ",", "(", "C", ",", "D", ")">>
Fragments == UNION {StringsOfLength(n) : n \in 0..MaxFragment} \cup {ExampleFragment}

\* a tree of one leaf whose name holds a digit: (("t1", "0.2"),)
NumberedLeafTree == Tup(<<Tup(<<Str(<<"t", "1">>), Str(<<"0", ".", "2">>)>>)>>)

\* what a caller passes to Tree(raw, name): a normalized tree, the path of a
\* tree file, a Newick text, a bare leaf name, or a value of another type
RawInputs ==
    Trees \cup {Str(TreeFilePath), Str(TreeFileText), Str(<<"A">>), Lst(<<>>),
                Str(UnknownLeafFilePath), Str(UnknownGroupFilePath), NumberedLeafTree}

\* thresholds, in tenths
Thresholds == (0 - 1)..MaxThreshold

CallerName == Str(<<"t">>)

NoHandle ==
    [tree |-> Str(<<>>), leaves |-> <<>>, name |-> Str(<<>>), cached |-> FALSE,
     clades |-> <<>>]

NotCalled == Raise("not called")

-----------------------------------------------------------------------------
(* The Tree handle and its callers *)

Init ==
    /\ raw \in RawInputs
    /\ handle = NoHandle
    /\ built = NoHandle
    /\ distance = 0
    /\ error = "none"
    /\ pc = "start"
    /\ string = <<>>
    /\ pieces = NotCalled
    /\ parsed = NotCalled
    /\ tree = NotCalled
    /\ leaves = NotCalled

\* the handle after Tree(raw, name) returned or raised
Constructed(r) ==
    IF r.ok
    THEN /\ handle' = r.val
         /\ built' = r.val
         /\ pc' = "ready"
         /\ error' = "none"
    ELSE /\ error' = r.err
         /\ pc' = "failed"
         /\ UNCHANGED <<handle, built>>

\* handle = Tree(raw, name)
Construct ==
    /\ pc = "start"
    /\ Constructed(TreeInit(raw, CallerName))
    /\ UNCHANGED <<raw, distance, string, pieces, parsed, tree, leaves>>

\* line 71 emptying self.leaves when it sets self.clades
Decomposed_ClearingLeaves(r, t) ==
    IF r.ok
    THEN /\ handle' = [handle EXCEPT !.cached = TRUE, !.clades = r.val, !.leaves = <<>>]
         /\ error' = "none"
         /\ distance' = t
    ELSE /\ error' = r.err
         /\ UNCHANGED <<handle, distance>>

\* line 71 assigns self.clades when recur_clades returned
Decomposed(r, t) ==
    IF r.ok
    THEN /\ handle' = [handle EXCEPT !.cached = TRUE, !.clades = r.val]
         /\ error' = "none"
         /\ distance' = t
    ELSE /\ error' = r.err
         /\ UNCHANGED <<handle, distance>>

\* handle.find_clades(t)
FindClades(t) ==
    /\ pc = "ready"
    /\ Decomposed(find_clades(handle, t), t)
    /\ UNCHANGED <<raw, built, pc, string, pieces, parsed, tree, leaves>>

\* leaves = handle.read_leaves(), lines 61-63: a fresh read_leaves(self.tree)
ReadLeaves ==
    /\ pc = "ready"
    /\ leaves' = Ok(read_leaves(handle.tree))
    /\ UNCHANGED <<raw, handle, built, distance, error, pc, string, pieces, parsed, tree>>

\* the caller goes on with the i-th clade of the handle, the leaves read from
\* the handle before left behind
SelectClade(i) ==
    /\ pc = "ready"
    /\ handle.cached
    /\ i \in 1..Len(handle.clades)
    /\ handle' = handle.clades[i]
    /\ built' = handle.clades[i]
    /\ distance' = 0
    /\ error' = "none"
    /\ leaves' = NotCalled
    /\ UNCHANGED <<raw, pc, string, pieces, parsed, tree>>

Next ==
    \/ Construct
    \/ \E t \in Thresholds : FindClades(t)
    \/ ReadLeaves
    \/ \E i \in 1..MaxNodes : SelectClade(i)

Spec == Init /\ [][Next]_vars

-----------------------------------------------------------------------------
(* The reader and its callers *)

Called(r) == r.ok \/ r.err # "not called"

InitParse ==
    /\ string \in Texts \cup Fragments
    /\ pieces = NotCalled
    /\ parsed = NotCalled
    /\ tree = NotCalled
    /\ leaves = NotCalled
    /\ raw = Str(<<>>)
    /\ handle = NoHandle
    /\ built = NoHandle
    /\ distance = 0
    /\ error = "none"
    /\ pc = "reader"

\* pieces = find_correct_comma(string)
CallFindCorrectComma ==
    /\ pc = "reader"
    /\ ~Called(pieces)
    /\ pieces' = find_correct_comma(string)
    /\ UNCHANGED <<raw, handle, built, distance, error, pc, string, parsed, tree, leaves>>

\* parsed = read_string(string)
CallReadString ==
    /\ pc = "reader"
    /\ ~Called(parsed)
    /\ parsed' = read_string(string, 0)
    /\ UNCHANGED <<raw, handle, built, distance, error, pc, string, pieces, tree, leaves>>

\* tree = format_list(parsed)
CallFormatList ==
    /\ pc = "reader"
    /\ parsed.ok
    /\ ~Called(tree)
    /\ tree' = Ok(format_list(parsed.val))
    /\ UNCHANGED <<raw, handle, built, distance, error, pc, string, pieces, parsed, leaves>>

\* leaves = read_leaves(tree)
CallReadLeaves ==
    /\ pc = "reader"
    /\ tree.ok
    /\ ~Called(leaves)
    /\ leaves' = Ok(read_leaves(tree.val))
    /\ UNCHANGED <<raw, handle, built, distance, error, pc, string, pieces, parsed, tree>>

NextParse ==
    \/ CallFindCorrectComma
    \/ CallReadString
    \/ CallFormatList
    \/ CallReadLeaves

SpecParse == InitParse /\ [][NextParse]_vars

-----------------------------------------------------------------------------
(* The nodes of a normalized tree, for the properties *)

\* the content and the branch-length text of a node
Content(e) == First(e)
IsLeaf(e) == IsStr(Content(e))

\* a node with a name or children and a branch length that is a number >= 0
HasLength(e) ==
    /\ Len(e.tuple) = 2
    /\ IsStr(Last(e))
    /\ ParseFloat(Last(e).str).ok
    /\ ParseFloat(Last(e).str).val >= 0

\* every node of the node sequence has such a branch length
RECURSIVE AllHaveLength(_)
AllHaveLength(items) ==
    \A i \in 1..Len(items) :
        /\ HasLength(items[i])
        /\ IsLeaf(items[i]) \/ AllHaveLength(Content(items[i]).tuple)

\* a tuple tree all of whose branch lengths are numbers >= 0
NumericTree(t) == IsTuple(t) /\ AllHaveLength(t.tuple)

\* the paths to the nodes of a node sequence: a path is the sequence of the
\* child indices to follow from the root
RECURSIVE PathsOf(_)
PathsOf(items) ==
    UNION {{<<i>>} \cup (IF IsLeaf(items[i]) THEN {}
                         ELSE {<<i>> \o p : p \in PathsOf(Content(items[i]).tuple)}) :
           i \in 1..Len(items)}

\* the node at a path
RECURSIVE NodeAt(_, _)
NodeAt(items, path) ==
    IF Len(path) = 1 THEN items[path[1]]
    ELSE NodeAt(Content(items[path[1]]).tuple, Tail(path))

\* the accumulated branch length from the root to the node at a path, inclusive
RECURSIVE Accumulated(_, _)
Accumulated(items, path) ==
    ParseFloat(Last(items[path[1]]).str).val
    + (IF Len(path) = 1 THEN 0 ELSE Accumulated(Content(items[path[1]]).tuple, Tail(path)))

\* the proper ancestors of the node at a path
Ancestors(path) == {SubSeq(path, 1, n) : n \in 1..(Len(path) - 1)}

\* the node at the path is the first on its path to reach the threshold
FirstToReach(items, path, t) ==
    /\ Accumulated(items, path) >= t
    /\ \A a \in Ancestors(path) : Accumulated(items, a) < t

\* depth-first left-to-right order of two paths neither of which is an
\* ancestor of the other
RECURSIVE Before(_, _)
Before(p, q) ==
    /\ p # <<>> /\ q # <<>>
    /\ \/ p[1] < q[1]
       \/ p[1] = q[1] /\ Before(Tail(p), Tail(q))

\* a set of paths, none an ancestor of another, in depth-first order
RECURSIVE InOrder(_)
InOrder(S) ==
    IF S = {} THEN <<>>
    ELSE LET m == CHOOSE p \in S : \A q \in S \ {p} : Before(p, q)
         IN <<m>> \o InOrder(S \ {m})

\* the nodes the threshold cuts off, in depth-first order
CutNodes(items, t) == InOrder({p \in PathsOf(items) : FirstToReach(items, p, t)})

\* tree x is tree y or the content of a node inside it
RECURSIVE SubtreeOf(_, _)
SubtreeOf(x, y) ==
    \/ x = y
    \/ /\ IsTuple(y)
       /\ \E i \in 1..Len(y.tuple) : SubtreeOf(x, Content(y.tuple[i]))

\* the largest accumulated branch length of a leaf
MaxLeafDistance(items) ==
    LET D == {Accumulated(items, p) : p \in {q \in PathsOf(items) : IsLeaf(NodeAt(items, q))}}
    IN CHOOSE d \in D : \A e \in D : e <= d

\* the trees of the clades the handle caches
CladeTrees == [i \in 1..Len(handle.clades) |-> handle.clades[i].tree]

HasClades == pc = "ready" /\ handle.cached

\* the handle is the one Tree(raw, name) built, not a clade taken from it
RootHandle == pc = "ready" /\ built.name = CallerName

-----------------------------------------------------------------------------
(* Properties of the clade decomposer *)

\* C1: on a tree of numeric non-negative branch lengths, find_clades(t)
\* returns exactly the nodes whose accumulated length is >= t while every
\* proper ancestor's is < t, in depth-first left-to-right order, and no
\* returned node lies inside another.
C1_FirstNodesReachingThreshold ==
    (HasClades /\ NumericTree(handle.tree)) =>
        LET cut == CutNodes(handle.tree.tuple, distance)
        IN /\ Len(handle.clades) = Len(cut)
           /\ \A i \in 1..Len(cut) :
                 CladeTrees[i] = Content(NodeAt(handle.tree.tuple, cut[i]))
           /\ \A i, j \in 1..Len(handle.clades) :
                 i # j => ~SubtreeOf(CladeTrees[i], CladeTrees[j])

\* C2: on a tree of numeric non-negative branch lengths (zero included), a
\* threshold <= 0 returns one clade per immediate child of the root, in root
\* order, and nothing else.
C2_ZeroThresholdGivesRootChildren ==
    (HasClades /\ NumericTree(handle.tree) /\ distance <= 0) =>
        /\ Len(handle.clades) = Len(handle.tree.tuple)
        /\ \A i \in 1..Len(handle.tree.tuple) :
              CladeTrees[i] = Content(handle.tree.tuple[i])

\* C5: the i-th clade find_clades returns is named "Clade_i": the names run
\* from Clade_1 without gap, duplicate or restart inside a recursed branch.
C5_CladesNamedConsecutively ==
    HasClades =>
        \A i \in 1..Len(handle.clades) :
            handle.clades[i].name = Str(<<"C", "l", "a", "d", "e", "_">> \o DecimalText(i))

\* a clade found inside a recursed branch follows an earlier clade
C5_Witness ==
    /\ HasClades
    /\ IsTuple(handle.tree)
    /\ \E i \in 2..Len(handle.clades) :
          \A k \in 1..Len(handle.tree.tuple) : Content(handle.tree.tuple[k]) # CladeTrees[i]

\* C6: for thresholds t1 < t2, each clade found at t2 is a subtree of, or
\* equal to, a clade found at t1 on the same tree.
C6_ThresholdMonotonicity ==
    HasClades =>
        \A t1 \in Thresholds :
            t1 < distance =>
                LET lower == find_clades(handle, t1)
                IN /\ lower.ok
                   /\ \A i \in 1..Len(handle.clades) :
                         \E j \in 1..Len(lower.val) :
                             SubtreeOf(CladeTrees[i], lower.val[j].tree)

\* a clade at the higher threshold lies strictly inside a clade of a lower one
C6_Witness ==
    /\ HasClades
    /\ \E t1 \in Thresholds :
          /\ t1 < distance
          /\ \E i \in 1..Len(handle.clades) :
                \E j \in 1..Len(find_clades(handle, t1).val) :
                    /\ SubtreeOf(CladeTrees[i], find_clades(handle, t1).val[j].tree)
                    /\ CladeTrees[i] # find_clades(handle, t1).val[j].tree

\* C7: on a tree of numeric non-negative branch lengths, a threshold above the
\* largest root-to-leaf accumulated distance returns no clade.
C7_UnreachableThresholdGivesNothing ==
    (HasClades /\ NumericTree(handle.tree)
        /\ distance > MaxLeafDistance(handle.tree.tuple)) =>
        handle.clades = <<>>

\* the threshold is above every leaf of a tree that has positive branch lengths
C7_Witness ==
    /\ HasClades
    /\ NumericTree(handle.tree)
    /\ MaxLeafDistance(handle.tree.tuple) > 0
    /\ distance > MaxLeafDistance(handle.tree.tuple)

\* the branch has a length text that float() does not take
UnknownLength(e) == Len(e.tuple) = 2 /\ IsStr(Last(e)) /\ ~ParseFloat(Last(e).str).ok

\* the paths to the branches of unknown length
UnknownPaths(items) == {p \in PathsOf(items) : UnknownLength(NodeAt(items, p))}

\* the node sequence without the node at a path
RECURSIVE Removed(_, _)
Removed(items, path) ==
    IF Len(path) = 1
    THEN SubSeq(items, 1, path[1] - 1) \o SubSeq(items, path[1] + 1, Len(items))
    ELSE [items EXCEPT ![path[1]] =
            Tup(<<Tup(Removed(Content(items[path[1]]).tuple, Tail(path)))>>
                \o Tail(items[path[1]].tuple))]

\* node e is a node of tree x, at any depth
RECURSIVE ElementIn(_, _)
ElementIn(e, x) ==
    /\ IsTuple(x)
    /\ \E i \in 1..Len(x.tuple) : x.tuple[i] = e \/ ElementIn(e, Content(x.tuple[i]))

\* the branch lies in no clade of the handle: no ancestor of it was cut off
OutsideClades(e) == \A i \in 1..Len(handle.clades) : ~ElementIn(e, CladeTrees[i])

\* C12: a branch whose length text is no number aborts neither the parse nor
\* the decomposition. The tree files with such a length are read; find_clades
\* returns; neither the branch nor a descendant of it becomes a clade; and,
\* unless an ancestor of the branch was cut off as a clade, the clades are
\* those of the tree without the branch, names included.
C12_UnknownLengthSkipsOneBranch ==
    /\ raw \in {Str(UnknownLeafFilePath), Str(UnknownGroupFilePath)} =>
          /\ pc # "failed"
          /\ RootHandle => IsTuple(handle.tree) /\ UnknownPaths(handle.tree.tuple) # {}
    /\ (pc = "ready" /\ IsTuple(handle.tree) /\ UnknownPaths(handle.tree.tuple) # {}) =>
          /\ error = "none"
          /\ handle.cached =>
                \A p \in UnknownPaths(handle.tree.tuple) :
                    /\ \A i \in 1..Len(handle.clades) :
                          ~SubtreeOf(CladeTrees[i], Content(NodeAt(handle.tree.tuple, p)))
                    /\ OutsideClades(NodeAt(handle.tree.tuple, p)) =>
                          handle.clades =
                              find_clades([tree |-> Tup(Removed(handle.tree.tuple, p))],
                                          distance).val

\* a group of unknown length was skipped with its leaves while a sibling of it
\* became a clade
C12_Witness ==
    /\ HasClades
    /\ IsTuple(handle.tree)
    /\ handle.clades # <<>>
    /\ \E p \in UnknownPaths(handle.tree.tuple) :
          /\ ~IsLeaf(NodeAt(handle.tree.tuple, p))
          /\ OutsideClades(NodeAt(handle.tree.tuple, p))

\* the leaves of the handle's clades, one clade after the other
RECURSIVE LeavesOfClades(_)
LeavesOfClades(clades) ==
    IF clades = <<>> THEN <<>> ELSE Head(clades).leaves \o LeavesOfClades(Tail(clades))

\* sequence a is sequence b with some of its items left out
RECURSIVE IsSubsequence(_, _)
IsSubsequence(a, b) ==
    IF a = <<>> THEN TRUE
    ELSE IF b = <<>> THEN FALSE
    ELSE IF Head(a) = Head(b) THEN IsSubsequence(Tail(a), Tail(b))
    ELSE IsSubsequence(a, Tail(b))

\* the node at the path and all its ancestors have a numeric branch length,
\* and each one's accumulated length is below the threshold
BelowThreshold(items, path, t) ==
    \A a \in Ancestors(path) \cup {path} :
        /\ ~UnknownLength(NodeAt(items, a))
        /\ Accumulated(items, a) < t

\* C15: the clades find_clades returns are disjoint parts of the tree: their
\* leaves, clade after clade, hold no leaf twice and are a subsequence of the
\* tree's leaves; and a leaf that stays below the threshold, as all its
\* ancestors do, is in no clade.
C15_CladesAreDisjointParts ==
    HasClades =>
        /\ \A i, j \in 1..Len(LeavesOfClades(handle.clades)) :
              LeavesOfClades(handle.clades)[i] = LeavesOfClades(handle.clades)[j] => i = j
        /\ IsSubsequence(LeavesOfClades(handle.clades), handle.leaves)
        /\ IsTuple(handle.tree) =>
              \A p \in PathsOf(handle.tree.tuple) :
                  (/\ IsLeaf(NodeAt(handle.tree.tuple, p))
                   /\ BelowThreshold(handle.tree.tuple, p, distance)) =>
                      \A i \in 1..Len(LeavesOfClades(handle.clades)) :
                          LeavesOfClades(handle.clades)[i] # Content(NodeAt(handle.tree.tuple, p))

-----------------------------------------------------------------------------
(* Properties of the Tree handle *)

Leaf(name, length) == Tup(<<Str(<<name>>), Str(length)>>)

\* C13: once a Tree is built, whatever leaves reads and find_clades calls
\* follow, on it or on a clade taken from it, the handle's leaves are
\* read_leaves of its tree, a leaves read returns them, and its tree, leaves
\* and name are those its constructor set: find_clades changes the cached
\* clades only.
C13_LeavesFollowTheTree ==
    pc = "ready" =>
        /\ handle.leaves = read_leaves(handle.tree)
        /\ Called(leaves) => leaves = Ok(handle.leaves)
        /\ handle.tree = built.tree
        /\ handle.leaves = built.leaves
        /\ handle.name = built.name
        /\ RootHandle => built = TreeInit(raw, CallerName).val

\* a clade of several leaves, taken from a handle, has been decomposed in its
\* turn and its leaves read
C13_Witness ==
    /\ HasClades
    /\ ~RootHandle
    /\ Len(handle.leaves) >= 2
    /\ handle.clades # <<>>
    /\ Called(leaves)

\* C16: a clade that is a single leaf, its tree the bare leaf name, decomposes
\* into nothing at every threshold, whatever characters the name holds, digits
\* included.
C16_SingleLeafCladeHasNoClades ==
    (HasClades /\ ~RootHandle /\ IsStr(handle.tree)) => handle.clades = <<>>

\* [Leaf("A",0.1), Internal([Leaf("B",0.2), Leaf("C",0.3)], length=0.4)]
ExampleTree ==
    Tup(<<Leaf("A", <<"0", ".", "1">>),
          Tup(<<Tup(<<Leaf("B", <<"0", ".", "2">>), Leaf("C", <<"0", ".", "3">>)>>),
                Str(<<"0", ".", "4">>)>>)>>)

SingleLeafClade(name, n) ==
    [tree |-> Str(<<name>>), leaves |-> <<Str(<<name>>)>>,
     name |-> Str(<<"C", "l", "a", "d", "e", "_", n>>), cached |-> FALSE, clades |-> <<>>]

\* C3: the text "(A:0.1,(B:0.2,C:0.3):0.4);" parses to leaf A (0.1) followed
\* by an internal node (0.4) holding leaves B (0.2) and C (0.3); its leaves are
\* [A, B, C]; at threshold 0.5 it decomposes into Clade_1 = [B], Clade_2 = [C].
C3_WorkedExample ==
    (RootHandle /\ raw = Str(TreeFilePath)) =>
        /\ handle.tree = ExampleTree
        /\ handle.leaves = <<Str(<<"A">>), Str(<<"B">>), Str(<<"C">>)>>
        /\ (handle.cached /\ distance = 5) =>
              handle.clades = <<SingleLeafClade("B", "1"), SingleLeafClade("C", "2")>>

\* the example text has been read and decomposed at 0.5
C3_Witness == RootHandle /\ raw = Str(TreeFilePath) /\ handle.cached /\ distance = 5

\* the str is no path of an existing tree file
NotATreeFile(r) ==
    IsStr(r) /\ ~(isfile(r.str) /\ Slice(r.str, -4, Len(r.str)) \in supported_tree_filetypes)

\* C4 as claimed: a Tree built from raw Newick text holds the parsed text, and
\* its leaves are the leaf names, not the one-element list of the whole text.
C4_RawTextIsParsed ==
    (RootHandle /\ raw = Str(TreeFileText)) =>
        /\ ParseText(raw.str).ok
        /\ handle.tree = ParseText(raw.str).val
        /\ handle.leaves = read_leaves(ParseText(raw.str).val)

\* C4 as amended: a Tree built from a str that is no path of an existing .dnd
\* file keeps the str itself as a trivial tree, unparsed, and its leaves are
\* the one-element list holding the whole str.
C4_RawTextIsKept ==
    (RootHandle /\ NotATreeFile(raw)) =>
        /\ handle.tree = raw
        /\ handle.leaves = <<raw>>

\* a Tree has been built from the Newick text
C4_Witness == RootHandle /\ raw = Str(TreeFileText) /\ NotATreeFile(raw)

-----------------------------------------------------------------------------
(* Properties of the reader *)

\* the number of "(" less the number of ")" left of position p
Depth(s, p) ==
    Cardinality({i \in 1..(p - 1) : s[i] = "("}) - Cardinality({i \in 1..(p - 1) : s[i] = ")"})

\* every ")" closes an earlier "(" and every "(" is closed
Balanced(s) ==
    /\ \A p \in 1..(Len(s) + 1) : Depth(s, p) >= 0
    /\ Depth(s, Len(s) + 1) = 0

\* the commas outside every group
TopLevelCommas(s) == {p \in 1..Len(s) : s[p] = "," /\ Depth(s, p) = 0}

\* the pieces between the top-level commas, by one scan from the left that
\* keeps the depth
RECURSIVE Scan(_, _, _, _)
Scan(s, i, depth, piece) ==
    IF i > Len(s) THEN <<piece>>
    ELSE IF s[i] = "," /\ depth = 0 THEN <<piece>> \o Scan(s, i + 1, 0, <<>>)
    ELSE Scan(s, i + 1,
              IF s[i] = "(" THEN depth + 1 ELSE IF s[i] = ")" THEN depth - 1 ELSE depth,
              Append(piece, s[i]))

\* ",".join(pieces)
RECURSIVE Join(_)
Join(ps) == IF Len(ps) = 1 THEN ps[1] ELSE ps[1] \o <<",">> \o Join(Tail(ps))

\* C8: on a balanced fragment with a top-level comma, find_correct_comma
\* returns, in order, the substrings between the top-level commas, empty first
\* and last pieces included; no piece holds a top-level comma; A,B,(C,D) gives
\* [A, B, (C,D)]; and the pieces joined by "," give the fragment back.
C8_SplitsAtTopLevelCommas ==
    (Called(pieces) /\ Balanced(string) /\ TopLevelCommas(string) # {}) =>
        /\ pieces.ok
        /\ pieces.val = Scan(string, 1, 0, <<>>)
        /\ Len(pieces.val) = Cardinality(TopLevelCommas(string)) + 1
        /\ \A i \in 1..Len(pieces.val) : TopLevelCommas(pieces.val[i]) = {}
        /\ Join(pieces.val) = string
        /\ string = ExampleFragment =>
              pieces.val = <<<<"A">>, <<"B">>, <<"(", "C", ",", "D", ")">>>>

\* a fragment with a top-level comma and a comma inside a group has been split
C8_Witness ==
    /\ Called(pieces)
    /\ Balanced(string)
    /\ TopLevelCommas(string) # {}
    /\ \E p \in 1..Len(string) : string[p] = "," /\ Depth(string, p) > 0

\* C9: a text whose outermost group is unterminated (more "(" than ")")
\* makes read_string fail; no tree is built from a truncated text.
C9_UnterminatedTextIsRejected ==
    (Called(parsed) /\ string # <<>> /\ string[1] = "(" /\ Depth(string, Len(string) + 1) > 0) =>
        ~parsed.ok

\* every leaf record of a parsed list has a branch-length part
RECURSIVE LeafRecordsHaveLength(_)
LeafRecordsHaveLength(lst) ==
    \A i \in 1..Len(lst.list) :
        LET element == lst.list[i]
        IN IF IsStr(First(element)) THEN Len(element.list) >= 2
           ELSE LeafRecordsHaveLength(First(element))

\* C10: a leaf fragment without ":" makes the parse fail; read_string never
\* returns a leaf record that lacks a branch-length part.
C10_LeafWithoutLengthIsRejected ==
    parsed.ok => LeafRecordsHaveLength(parsed.val)

\* the list read_string is to return for a tree: a leaf as [name, length], an
\* internal node as [[children...], length]
RECURSIVE ListForm(_)
ListOfNode(e) ==
    IF IsLeaf(e) THEN Lst(e.tuple) ELSE Lst(<<ListForm(Content(e))>> \o Tail(e.tuple))
ListForm(t) == Lst([i \in 1..Len(t.tuple) |-> ListOfNode(t.tuple[i])])

\* every group of the node sequence has at least two members
RECURSIVE Branching(_)
Branching(items) ==
    /\ Len(items) >= 2
    /\ \A i \in 1..Len(items) : IsLeaf(items[i]) \/ Branching(Content(items[i]).tuple)

\* the trees whose text is a valid body: every leaf and every group followed by
\* ":" and a number, every group of two members or more
ValidTextTrees == {t \in TextTrees : NumericTree(t) /\ Branching(t.tuple)}

\* the text of a tree without its last k characters: "(B);" and a newline for
\* k = 0, "(B);" for k = 1, "(B)" for k = 2
TextForm(t, k) == Slice(Write(t), 0, Len(Write(t)) - k)

\* C11: for a valid body B, read_string of "(B)", of "(B);" and of "(B);"
\* followed by a newline all return the root sequence of B, every name and
\* branch-length text intact: nothing but the outermost parentheses and the
\* terminator, when there is one, is removed.
C11_HeaderAndTerminatorStripped ==
    Called(parsed) =>
        \A t \in ValidTextTrees : \A k \in 0..2 :
            string = TextForm(t, k) => parsed = Ok(ListForm(t))

\* the leaf names of a text in the order they stand in it: the model's names
\* are single letters, and only names hold letters
IsLetter(c) == \E i \in 1..Len(Letters) : Letters[i] = c
NamesInText(s) ==
    [i \in 1..Len(SelectSeq(s, IsLetter)) |-> Str(<<SelectSeq(s, IsLetter)[i]>>)]

\* the number of leaves of a node sequence, counted node by node
RECURSIVE LeafCount(_)
LeafCount(items) ==
    IF items = <<>> THEN 0
    ELSE (IF IsLeaf(Head(items)) THEN 1 ELSE LeafCount(Content(Head(items)).tuple))
         + LeafCount(Tail(items))

\* C14: for a valid text, read_leaves(format_list(read_string(text))) is the
\* sequence of the leaf names in the order they stand in the text, each once,
\* and as long as the tree has leaves by a count of its own.
C14_LeavesInTextOrder ==
    \A t \in ValidTextTrees : \A k \in 0..2 :
        string = TextForm(t, k) =>
            /\ Called(parsed) => parsed.ok
            /\ Called(leaves) =>
                  /\ leaves.val = NamesInText(string)
                  /\ Len(leaves.val) = LeafCount(t.tuple)
                  /\ \A i, j \in 1..Len(leaves.val) :
                        leaves.val[i] = leaves.val[j] => i = j

\* the leaves of a valid text with a group inside have been read
C14_Witness ==
    /\ Called(leaves)
    /\ \E t \in ValidTextTrees :
          /\ string = TextForm(t, 1)
          /\ \E i \in 1..Len(t.tuple) : ~IsLeaf(t.tuple[i])
          /\ Len(leaves.val) >= 3

====
